---- MODULE Spec2Model ----
(***************************************************************************)
(* react-native-ios-activitykit: the TypeScript facade (src/src/index.ts)  *)
(* and the Swift bridge module ExpoLiveActivitiesModule                    *)
(* (src/ios/ExpoLiveActivities.podspec, lines 22-354).                     *)
(*                                                                         *)
(* A facade call is a JavaScript async function: its synchronous prefix    *)
(* runs when it is called and makes the bridge request; the response       *)
(* travels back and the rest of the async function runs later, so calls    *)
(* overlap.  The module's AsyncFunctions run one at a time on its serial   *)
(* function queue, in the order the requests were made, and JavaScript     *)
(* cannot observe when a queued request runs: the native handler is run in *)
(* the step that makes the request.  The native update and end handlers    *)
(* start an unstructured Task for the host call and return without         *)
(* awaiting it; pending Tasks run in any order.                            *)
(***************************************************************************)
EXTENDS Integers, Sequences, FiniteSets, TLC

\* ---------------------------------------------------------------- bounds
\* Facade calls that may be in progress at once.
NSlots == 2
\* UUIDs the bridge may draw (one per native startActivity).
MaxUuids == 2
\* The count of an activity's teardown requests is kept up to this number.
MaxTeardowns == 2

Slots == 1..NSlots

\* ------------------------------------------------------- program constants
\* `#available(iOS 16.1, *)`, as major*10 + minor.
IOS_16_1 == 161
\* `#available(iOS 16.2, *)`
IOS_16_2 == 162

Versions == {IOS_16_1 - 1, IOS_16_1, IOS_16_2}

\* ------------------------------------------------------------ JS values
\* A value of a [String: Any] dictionary, with its runtime type.
StrV(s) == [t |-> "str", s |-> s, n |-> 0]
IntV(n) == [t |-> "int", s |-> "", n |-> n]
\* An absent optional (Swift nil).
None == [t |-> "none", s |-> "", n |-> 0]

EmptyDict == [k \in {} |-> None]

\* dict[key]: nil when the key is absent.
Get(dict, key) == IF key \in DOMAIN dict THEN dict[key] ELSE None

\* `dict[key] as? String` / `as? Int`: nil unless present with that type.
AsType(dict, key, type) ==
  IF Get(dict, key).t = type THEN Get(dict, key) ELSE None

\* The attribute records callers pass: one with every kind's required
\* fields, one with the counter's alone, one whose title has the wrong type.
AttrDicts ==
  { ("identifier" :> StrV("X")) @@ ("title" :> StrV("T")) @@ ("total" :> IntV(3)),
    "title" :> StrV("T"),
    "title" :> IntV(7) }

\* The content records callers pass: two with every kind's required fields,
\* one with the status kind's alone, one whose value has the wrong type.
ContentDicts ==
  { ("value" :> IntV(10)) @@ ("status" :> StrV("a")) @@ ("current" :> IntV(1)),
    ("value" :> IntV(5)) @@ ("status" :> StrV("s")) @@ ("current" :> IntV(2)),
    "status" :> StrV("a"),
    "value" :> StrV("x") }

\* A JavaScript argument: null/undefined, or a record.
JsNull == [isNull |-> TRUE, d |-> EmptyDict]
Js(d) == [isNull |-> FALSE, d |-> d]
AttrInputs == {JsNull} \cup {Js(d) : d \in AttrDicts}
ContentInputs == {JsNull} \cup {Js(d) : d \in ContentDicts}

\* `x || {}`
OrEmpty(x) == IF x.isNull THEN EmptyDict ELSE x.d

KindInputs == {"CounterActivity", "StatusActivity", "ProgressActivity",
               "DoesNotExist", ""}
PolicyInputs == {"immediate", "default", "after", "AFTER"}

\* The arguments of overlapping calls: one kind the bridge knows, one it does
\* not and the empty string; absent, accepted and rejected records; the policy
\* whose meaning depends on the iOS version.
CoreKinds == {"CounterActivity", "DoesNotExist", ""}
CoreAttrs == {JsNull, Js(("identifier" :> StrV("X")) @@ ("title" :> StrV("T")) @@ ("total" :> IntV(3)))}
CoreContents ==
  {JsNull, Js(("value" :> IntV(10)) @@ ("status" :> StrV("a")) @@ ("current" :> IntV(1))),
   Js("value" :> StrV("x"))}
CorePolicies == {"AFTER"}

\* String.lowercased() on the policy strings callers pass.
Lowercased(s) == IF s = "AFTER" THEN "after" ELSE s

\* A generator that hands out the same string again: what the freshness of
\* activity ids (C2) rules out.
UuidStringRepeats(n) == "uuid-1"

\* UUID().uuidString for the n-th UUID drawn: distinct draws are distinct
\* strings, none empty.
UuidString(n) == "uuid-" \o ToString(n)

\* ------------------------------------------------------------- results
NoVal == [activityId |-> "", activityType |-> "", ids |-> {}, bool |-> FALSE]
Ok(val) == [ok |-> TRUE, err |-> << >>, val |-> val]
\* An error is its message, outermost wrapper first.
Err(chain) == [ok |-> FALSE, err |-> chain, val |-> NoVal]
\* The innermost error of a wrapped message.
Root(out) == out.err[Len(out.err)]
\* catch { throw wrapper(error.localizedDescription) } / `prefix: ${error}`
Wrap(tag, out) == IF out.ok THEN out ELSE Err(<<tag>> \o out.err)

\* ----------------------------------------------------- declared contracts
\* The required fields of each kind's attributes and content, with their
\* types, as the TypeScript interfaces declare them.
RequiredAttributes(kind) ==
  CASE kind = "CounterActivity" -> {<<"title", "str">>}
    [] kind = "StatusActivity" -> {<<"identifier", "str">>, <<"title", "str">>}
    [] kind = "ProgressActivity" -> {<<"title", "str">>, <<"total", "int">>}
    [] OTHER -> {}

RequiredContent(kind) ==
  CASE kind = "CounterActivity" -> {<<"value", "int">>}
    [] kind = "StatusActivity" -> {<<"status", "str">>}
    [] kind = "ProgressActivity" -> {<<"current", "int">>}
    [] OTHER -> {}

\* A record has every required field with its type.
Satisfies(dict, required) ==
  \A f \in required : f[1] \in DOMAIN dict /\ dict[f[1]].t = f[2]

\* ------------------------------------------------------------- parsing
parseCounterAttributes(dict) ==
  IF AsType(dict, "title", "str") = None
  THEN [ok |-> FALSE, err |-> "invalidAttributes", v |-> [none |-> None]]
  ELSE [ok |-> TRUE, err |-> "",
        v |-> [title |-> AsType(dict, "title", "str"),
               color |-> AsType(dict, "color", "str")]]

parseCounterContent(dict) ==
  IF AsType(dict, "value", "int") = None
  THEN [ok |-> FALSE, err |-> "invalidContent", v |-> [none |-> None]]
  ELSE [ok |-> TRUE, err |-> "",
        v |-> [value |-> AsType(dict, "value", "int"),
               status |-> AsType(dict, "status", "str")]]

parseStatusAttributes(dict) ==
  IF AsType(dict, "identifier", "str") = None \/ AsType(dict, "title", "str") = None
  THEN [ok |-> FALSE, err |-> "invalidAttributes", v |-> [none |-> None]]
  ELSE [ok |-> TRUE, err |-> "",
        v |-> [identifier |-> AsType(dict, "identifier", "str"),
               title |-> AsType(dict, "title", "str")]]

parseStatusContent(dict) ==
  IF AsType(dict, "status", "str") = None
  THEN [ok |-> FALSE, err |-> "invalidContent", v |-> [none |-> None]]
  ELSE [ok |-> TRUE, err |-> "",
        v |-> [status |-> AsType(dict, "status", "str"),
               progress |-> AsType(dict, "progress", "int"),
               details |-> AsType(dict, "details", "str"),
               timestamp |-> AsType(dict, "timestamp", "double")]]

parseProgressAttributes(dict) ==
  IF AsType(dict, "title", "str") = None \/ AsType(dict, "total", "int") = None
  THEN [ok |-> FALSE, err |-> "invalidAttributes", v |-> [none |-> None]]
  ELSE [ok |-> TRUE, err |-> "",
        v |-> [title |-> AsType(dict, "title", "str"),
               total |-> AsType(dict, "total", "int"),
               unit |-> AsType(dict, "unit", "str")]]

parseProgressContent(dict) ==
  IF AsType(dict, "current", "int") = None
  THEN [ok |-> FALSE, err |-> "invalidContent", v |-> [none |-> None]]
  ELSE [ok |-> TRUE, err |-> "",
        v |-> [current |-> AsType(dict, "current", "int"),
               description |-> AsType(dict, "description", "str"),
               percentage |-> AsType(dict, "percentage", "int")]]

\* ---------------------------------------------------------------- state
VARIABLES
  env,              \* the device: Platform.OS, native module linked, iOS version, failing bridge functions
  moduleRef,        \* ExpoLiveActivitiesModule of index.ts: "unloaded", "module", "null", "threw"
  calls,            \* the facade calls in progress, by slot
  last,             \* the facade call the step just taken completed, with its outcome
  responses,        \* native results on their way back to JavaScript
  activeActivities, \* the bridge's registry: activity id -> handle
  host,             \* the activities the host presents, by handle number
  hostTasks,        \* Tasks started by update/end and not yet run
  uuidCount,        \* UUIDs drawn so far
  teardowns,        \* activity id -> host teardowns requested for it so far
  earlier,          \* pairs of pending Tasks of one activity id, the first started before the second
  knownIds,         \* ids a resolved startActivity has returned to the caller
  endIssued,        \* activity ids for which endActivity has been called
  endDone,          \* activity ids for which an endActivity has completed
  quiet             \* an endAllActivities completed and no startActivity was called since it began

vars == <<env, moduleRef, calls, last, responses, activeActivities, host,
          hostTasks, uuidCount, teardowns, earlier, knownIds, endIssued, endDone,
          quiet>>

nativeVars == <<activeActivities, host, hostTasks, uuidCount, teardowns, earlier>>
ghostVars == <<knownIds, endIssued, endDone, quiet>>

\* A device.  `throws` holds the bridge functions that raise whenever they are
\* invoked on it (the catch blocks of isSupported and getAllActivities).
Envs ==
  [os : {"ios", "android"}, linked : BOOLEAN, version : Versions,
   throws : SUBSET {"isSupported", "getAllActivities"}]

IdleCall ==
  [op |-> "none", pc |-> "idle", id |-> "", kind |-> "", ids |-> {}, pend |-> {},
   policy |-> "", dirty |-> FALSE, expectEmpty |-> FALSE, absent |-> FALSE,
   hostFailed |-> FALSE, attrsOk |-> FALSE, contentOk |-> FALSE, ended |-> {},
   out |-> Ok(NoVal)]

Init ==
  /\ env \in Envs
  /\ moduleRef = "unloaded"
  /\ calls = [s \in Slots |-> IdleCall]
  /\ last = IdleCall
  /\ responses = {}
  /\ activeActivities = EmptyDict
  /\ host = EmptyDict
  /\ hostTasks = {}
  /\ earlier = {}
  /\ uuidCount = 0
  /\ teardowns = EmptyDict
  /\ knownIds = {}
  /\ endIssued = {}
  /\ endDone = {}
  /\ quiet = FALSE

\* ------------------------------------------------------- native helpers
\* The state the native module works on.
Native ==
  [reg |-> activeActivities, hst |-> host, tasks |-> hostTasks, uuids |-> uuidCount,
   ends |-> teardowns]

\* What a private helper of the module leaves behind: the error it threw
\* ("" when it returned), the native state, and whether Activity.request was
\* called.
Effect(err, st, hostCalled) == [err |-> err, st |-> st, hostCalled |-> hostCalled]

Thrown(err, st) == Effect(err, st, FALSE)

\* The Activity<kind> object a request returns: a reference to the host's
\* n-th activity, with its static type.
Handle(n, kind) == [n |-> n, kind |-> kind]

\* A creation that returns without recording the activity: what C1 rules out.
requestAndStoreForgets(st, kind, activityId, attrs, content, hostAccepts) ==
  IF ~hostAccepts
  THEN Effect("hostRejected", st, TRUE)
  ELSE Effect("",
              [st EXCEPT
                 !.hst = (st.uuids :> [kind |-> kind, attrs |-> attrs, content |-> content])
                           @@ st.hst],
              TRUE)

\* A creation that records the activity before the host has accepted it: what
\* C5 rules out.
requestAndStoreEarly(st, kind, activityId, attrs, content, hostAccepts) ==
  IF ~hostAccepts
  THEN Effect("hostRejected",
              [st EXCEPT !.reg = (activityId :> Handle(st.uuids, kind)) @@ st.reg],
              TRUE)
  ELSE Effect("",
              [st EXCEPT
                 !.reg = (activityId :> Handle(st.uuids, kind)) @@ st.reg,
                 !.hst = (st.uuids :> [kind |-> kind, attrs |-> attrs, content |-> content])
                           @@ st.hst],
              TRUE)

\* Activity<Attributes>.request(attributes:contentState:pushType:) followed by
\* activeActivities[activityId] = activity.  The host may refuse the request
\* (activities disabled, too many activities): request then throws and the
\* assignment is not reached.
requestAndStore(st, kind, activityId, attrs, content, hostAccepts) ==
  IF ~hostAccepts
  THEN Effect("hostRejected", st, TRUE)
  ELSE Effect("",
              [st EXCEPT
                 !.reg = (activityId :> Handle(st.uuids, kind)) @@ st.reg,
                 !.hst = (st.uuids :> [kind |-> kind, attrs |-> attrs, content |-> content])
                           @@ st.hst],
              TRUE)

createCounterActivity(st, activityId, attributes, contentState, hostAccepts) ==
  LET attrs == parseCounterAttributes(attributes)
      content == parseCounterContent(contentState)
  IN  IF ~attrs.ok THEN Thrown(attrs.err, st)
      ELSE IF ~content.ok THEN Thrown(content.err, st)
      ELSE requestAndStore(st, "CounterActivity", activityId, attrs.v, content.v, hostAccepts)

\* A status creation that parses the content before the attributes: what C13
\* rules out.
createStatusActivityContentFirst(st, activityId, attributes, contentState, hostAccepts) ==
  LET attrs == parseStatusAttributes(attributes)
      content == parseStatusContent(contentState)
  IN  IF ~content.ok THEN Thrown(content.err, st)
      ELSE IF ~attrs.ok THEN Thrown(attrs.err, st)
      ELSE requestAndStore(st, "StatusActivity", activityId, attrs.v, content.v, hostAccepts)

createStatusActivity(st, activityId, attributes, contentState, hostAccepts) ==
  LET attrs == parseStatusAttributes(attributes)
      content == parseStatusContent(contentState)
  IN  IF ~attrs.ok THEN Thrown(attrs.err, st)
      ELSE IF ~content.ok THEN Thrown(content.err, st)
      ELSE requestAndStore(st, "StatusActivity", activityId, attrs.v, content.v, hostAccepts)

createProgressActivity(st, activityId, attributes, contentState, hostAccepts) ==
  LET attrs == parseProgressAttributes(attributes)
      content == parseProgressContent(contentState)
  IN  IF ~attrs.ok THEN Thrown(attrs.err, st)
      ELSE IF ~content.ok THEN Thrown(content.err, st)
      ELSE requestAndStore(st, "ProgressActivity", activityId, attrs.v, content.v, hostAccepts)

\* The activity types createActivity has a case for.
Catalog == {"CounterActivity", "StatusActivity", "ProgressActivity"}

\* A createActivity whose default case creates a counter: what C12 rules out.
createActivityFallsBack(st, activityId, activityType, attributes, contentState, hostAccepts) ==
  CASE activityType = "StatusActivity" ->
         createStatusActivity(st, activityId, attributes, contentState, hostAccepts)
    [] activityType = "ProgressActivity" ->
         createProgressActivity(st, activityId, attributes, contentState, hostAccepts)
    [] OTHER -> createCounterActivity(st, activityId, attributes, contentState, hostAccepts)

createActivity(st, activityId, activityType, attributes, contentState, hostAccepts) ==
  CASE activityType = "CounterActivity" ->
         createCounterActivity(st, activityId, attributes, contentState, hostAccepts)
    [] activityType = "StatusActivity" ->
         createStatusActivity(st, activityId, attributes, contentState, hostAccepts)
    [] activityType = "ProgressActivity" ->
         createProgressActivity(st, activityId, attributes, contentState, hostAccepts)
    [] OTHER -> Thrown("unknownType", st)

\* A trial whose first cast succeeds for every handle: what C18 rules out.
ResolveKindFirstCastWins(h) == "CounterActivity"

\* `activity as? Activity<...Attributes>`, tried in the order Counter, Status,
\* Progress: the cast succeeds exactly for the type the handle was created with.
ResolveKind(h) ==
  IF h.kind = "CounterActivity" THEN "CounterActivity"
  ELSE IF h.kind = "StatusActivity" THEN "StatusActivity"
  ELSE IF h.kind = "ProgressActivity" THEN "ProgressActivity"
  ELSE "unknownType"

\* The content parser of a resolved kind.
parseContentFor(kind, contentState) ==
  CASE kind = "CounterActivity" -> parseCounterContent(contentState)
    [] kind = "StatusActivity" -> parseStatusContent(contentState)
    [] OTHER -> parseProgressContent(contentState)

\* Task { await activity.update(using:) } / Task { await activity.end(...) },
\* with the slot of the facade call it was started for.
HostTask(op, h, content, policy, slot, id) ==
  [op |-> op, h |-> h, content |-> content, policy |-> policy, slot |-> slot, id |-> id]

\* An update that parses the content before it looks the id up: what C3 rules
\* out.
updateExistingActivityParsesFirst(st, activityId, contentState, slot) ==
  IF ~parseCounterContent(contentState).ok THEN Thrown("invalidContent", st)
  ELSE IF activityId \notin DOMAIN st.reg THEN Thrown("notFound", st)
  ELSE LET h == st.reg[activityId]
       IN  Effect("",
                  [st EXCEPT !.tasks =
                     @ \cup {HostTask("update", h, parseCounterContent(contentState).v, "",
                                      slot, activityId)}],
                  FALSE)

\* An update that starts the host request and then throws: a handler whose
\* outcome is an error although the host was asked, which C7 rules out.
updateExistingActivityThrowsLate(st, activityId, contentState, slot) ==
  IF activityId \notin DOMAIN st.reg THEN Thrown("notFound", st)
  ELSE LET h == st.reg[activityId]
           content == parseContentFor(ResolveKind(h), contentState)
       IN  IF ~content.ok THEN Thrown(content.err, st)
           ELSE Effect("hostFailed",
                       [st EXCEPT !.tasks =
                          @ \cup {HostTask("update", h, content.v, "", slot, activityId)}],
                       FALSE)

updateExistingActivity(st, activityId, contentState, slot) ==
  IF activityId \notin DOMAIN st.reg THEN Thrown("notFound", st)
  ELSE LET h == st.reg[activityId]
           kind == ResolveKind(h)
           content == parseContentFor(kind, contentState)
       IN  IF kind = "unknownType" THEN Thrown("unknownType", st)
           ELSE IF ~content.ok THEN Thrown(content.err, st)
           ELSE Effect("",
                       [st EXCEPT !.tasks =
                          @ \cup {HostTask("update", h, content.v, "", slot, activityId)}],
                       FALSE)

\* The teardowns requested for an activity so far.
Teardowns(ends, activityId) == IF activityId \in DOMAIN ends THEN ends[activityId] ELSE 0

\* One more teardown requested for an activity.
OneMore(ends, activityId) ==
  (activityId :> IF Teardowns(ends, activityId) < MaxTeardowns
                 THEN Teardowns(ends, activityId) + 1 ELSE MaxTeardowns) @@ ends

\* An end that leaves the registry entry in place: what C6 rules out.
endExistingActivityKeeps(st, activityId, dismissalPolicy, slot) ==
  IF activityId \notin DOMAIN st.reg THEN Thrown("notFound", st)
  ELSE Effect("",
              [st EXCEPT
                 !.tasks = @ \cup {HostTask("end", st.reg[activityId], [none |-> None],
                                            dismissalPolicy, slot, activityId)},
                 !.ends = OneMore(@, activityId)],
              FALSE)

\* An end without the lookup guard, which returns for an id that has no
\* entry: what C17 rules out.
endExistingActivityUnguarded(st, activityId, dismissalPolicy, slot) ==
  IF activityId \notin DOMAIN st.reg THEN Effect("", st, FALSE)
  ELSE LET h == st.reg[activityId]
           removed == [st EXCEPT !.reg = [i \in DOMAIN st.reg \ {activityId} |-> st.reg[i]]]
       IN  Effect("",
                  [removed EXCEPT
                     !.tasks = @ \cup {HostTask("end", h, [none |-> None],
                                                dismissalPolicy, slot, activityId)},
                     !.ends = OneMore(@, activityId)],
                  FALSE)

\* An end that removes the entry only for an immediate dismissal and leaves
\* it to a later call otherwise: what C19 rules out.
endExistingActivityRemovesOnImmediate(st, activityId, dismissalPolicy, slot) ==
  IF activityId \notin DOMAIN st.reg THEN Thrown("notFound", st)
  ELSE LET h == st.reg[activityId]
           removed == IF dismissalPolicy = "immediate"
                      THEN [st EXCEPT !.reg = [i \in DOMAIN st.reg \ {activityId} |-> st.reg[i]]]
                      ELSE st
       IN  Effect("",
                  [removed EXCEPT
                     !.tasks = @ \cup {HostTask("end", h, [none |-> None],
                                                dismissalPolicy, slot, activityId)},
                     !.ends = OneMore(@, activityId)],
                  FALSE)

\* The Task of endExistingActivity asks the host to end the activity when one
\* of its casts succeeds; the entry is removed in either case.
endExistingActivity(st, activityId, dismissalPolicy, slot) ==
  IF activityId \notin DOMAIN st.reg THEN Thrown("notFound", st)
  ELSE LET h == st.reg[activityId]
           removed == [st EXCEPT !.reg = [i \in DOMAIN st.reg \ {activityId} |-> st.reg[i]]]
       IN  IF ResolveKind(h) = "unknownType" THEN Effect("", removed, FALSE)
           ELSE Effect("",
                       [removed EXCEPT
                          !.tasks = @ \cup {HostTask("end", h, [none |-> None],
                                                     dismissalPolicy, slot, activityId)},
                          !.ends = OneMore(@, activityId)],
                       FALSE)

\* A policy parser without the availability test: what C11 rules out.
parseDismissalPolicyKeepsAfter(policy) ==
  CASE Lowercased(policy) = "immediate" -> "immediate"
    [] Lowercased(policy) = "after" -> "after"
    [] OTHER -> "default"

parseDismissalPolicy(policy) ==
  CASE Lowercased(policy) = "immediate" -> "immediate"
    [] Lowercased(policy) = "after" ->
         IF env.version >= IOS_16_2 THEN "after" ELSE "default"
    [] OTHER -> "default"

\* --------------------------------------------------------------- bridge
\* What an AsyncFunction leaves behind: its result and the native state.
Result(out, st, hostCalled) == [out |-> out, st |-> st, hostCalled |-> hostCalled]

\* Function("isSupported")
NativeIsSupported == env.version >= IOS_16_1

\* AsyncFunction("startActivity")
NativeStartActivity(st, activityType, attributes, contentState, hostAccepts) ==
  IF env.version < IOS_16_1 THEN Result(Err(<<"unsupported">>), st, FALSE)
  ELSE LET drawn == [st EXCEPT !.uuids = @ + 1]
           activityId == UuidString(drawn.uuids)
           e == createActivity(drawn, activityId, activityType, attributes, contentState,
                               hostAccepts)
       IN  Result(IF e.err = ""
                  THEN Ok([NoVal EXCEPT !.activityId = activityId,
                                        !.activityType = activityType])
                  ELSE Err(<<"startFailed", e.err>>),
                  e.st, e.hostCalled)

\* AsyncFunction("updateActivity")
NativeUpdateActivity(st, activityId, contentState, slot) ==
  IF env.version < IOS_16_1 THEN Result(Err(<<"unsupported">>), st, FALSE)
  ELSE LET e == updateExistingActivity(st, activityId, contentState, slot)
       IN  Result(IF e.err = "" THEN Ok(NoVal) ELSE Err(<<"updateFailed", e.err>>),
                  e.st, FALSE)

\* AsyncFunction("endActivity")
NativeEndActivity(st, activityId, dismissalPolicy, slot) ==
  IF env.version < IOS_16_1 THEN Result(Err(<<"unsupported">>), st, FALSE)
  ELSE LET e == endExistingActivity(st, activityId, parseDismissalPolicy(dismissalPolicy), slot)
       IN  Result(IF e.err = "" THEN Ok(NoVal) ELSE Err(<<"endFailed", e.err>>),
                  e.st, FALSE)

\* AsyncFunction("getAllActivities")
NativeGetAllActivities(st) ==
  IF env.version < IOS_16_1 THEN {} ELSE DOMAIN st.reg

\* `await ExpoLiveActivitiesModule.getAllActivities()`: the ids, or the bridge
\* call raising.
BridgeGetAllActivities(st) ==
  IF "getAllActivities" \in env.throws
  THEN Err(<<"bridgeCallFailed">>)
  ELSE Ok([NoVal EXCEPT !.ids = NativeGetAllActivities(st)])

\* A native result on its way back to the call of slot s.
Response(s, fn, id, res) ==
  [slot |-> s, fn |-> fn, id |-> id, out |-> res.out, hostCalled |-> res.hostCalled]

\* The native state after a handler has run.
Becomes(st) ==
  /\ activeActivities' = st.reg
  /\ host' = st.hst
  /\ hostTasks' = st.tasks
  /\ earlier' = earlier \cup
        {<<u, t>> : u \in {x \in hostTasks : \E y \in st.tasks \ hostTasks : y.id = x.id},
                    t \in {y \in st.tasks \ hostTasks : \E x \in hostTasks : y.id = x.id}}
  /\ uuidCount' = st.uuids
  /\ teardowns' = st.ends

\* --------------------------------------------------------------- facade
\* The module evaluated without raising: the facade's functions exist.
ModuleReady == moduleRef \in {"module", "null"}

\* isSupported() of index.ts.
isSupported ==
  IF env.os # "ios" THEN FALSE
  ELSE IF moduleRef # "module" THEN FALSE
  ELSE IF "isSupported" \in env.throws THEN FALSE
  ELSE NativeIsSupported

\* Something of the call that ran in slot s is still on its way or pending.
Tagged(s) ==
  \/ \E r \in responses : r.slot = s
  \/ \E t \in hostTasks : t.slot = s

Free(s) == calls[s].pc = "idle" /\ ~Tagged(s)

\* A new call takes the first free slot.
Takes(s) == Free(s) /\ \A x \in Slots : x < s => ~Free(x)

\* A call as it completes with outcome out.
Completed(c, out) == [c EXCEPT !.pc = "done", !.out = out]

\* A call that begins.
Began(op, pc) == [IdleCall EXCEPT !.op = op, !.pc = pc]

\* The ids the caller can name: those startActivity returned, the empty
\* string, and a string that is no activity's id.
CallerIds == knownIds \cup {"", "no-such-id"}

\* The activity ids among a set of strings.
Uuids(ids) == ids \ {"", "no-such-id"}

\* const ExpoLiveActivitiesModule = Platform.OS === 'ios'
\*     ? requireNativeModule('ExpoLiveActivities') : null;
\* requireNativeModule raises when the native module is not linked.
LoadModule ==
  /\ moduleRef = "unloaded"
  /\ moduleRef' = IF env.os = "ios"
                  THEN (IF env.linked THEN "module" ELSE "threw")
                  ELSE "null"
  /\ last' = IdleCall
  /\ UNCHANGED <<env, calls, responses, nativeVars, ghostVars>>

\* isSupported() called by the caller.
CallIsSupported ==
  /\ ModuleReady
  /\ last' = Completed(Began("isSupported", "done"), Ok([NoVal EXCEPT !.bool = isSupported]))
  /\ UNCHANGED <<env, moduleRef, calls, responses, nativeVars, ghostVars>>

\* startActivity up to its await.
startActivity(s, activityType, attributes, contentState, hostAccepts) ==
  /\ ModuleReady /\ Takes(s)
  /\ uuidCount < MaxUuids
  /\ LET marked == [x \in Slots |->
                      IF calls[x].op = "endAll" THEN [calls[x] EXCEPT !.dirty = TRUE]
                      ELSE calls[x]]
         c == [Began("start", "await") EXCEPT
                 !.kind = activityType,
                 !.attrsOk = Satisfies(OrEmpty(attributes), RequiredAttributes(activityType)),
                 !.contentOk = Satisfies(OrEmpty(contentState), RequiredContent(activityType))]
         res == NativeStartActivity(Native, activityType, OrEmpty(attributes),
                                    OrEmpty(contentState), hostAccepts)
     IN  IF ~isSupported
         THEN /\ last' = Completed(c, Err(<<"Unsupported">>))
              /\ calls' = marked
              /\ UNCHANGED <<responses, nativeVars>>
         ELSE IF activityType = ""
         THEN /\ last' = Completed(c, Err(<<"InvalidArgument">>))
              /\ calls' = marked
              /\ UNCHANGED <<responses, nativeVars>>
         ELSE /\ calls' = [marked EXCEPT ![s] = c]
              /\ responses' = responses \cup {Response(s, "startActivity", "", res)}
              /\ Becomes(res.st)
              /\ last' = IdleCall
  /\ quiet' = FALSE
  /\ UNCHANGED <<env, moduleRef, knownIds, endIssued, endDone>>

\* An updateActivity that validates its argument before it asks isSupported(),
\* on a device that is not supported: what C8 rules out.
updateActivityValidatesFirst(s, activityId, contentState) ==
  /\ ModuleReady /\ Takes(s)
  /\ ~isSupported
  /\ last' = Completed([Began("update", "await") EXCEPT !.id = activityId],
                       IF activityId = "" THEN Err(<<"InvalidArgument">>)
                       ELSE Err(<<"Unsupported">>))
  /\ UNCHANGED <<env, moduleRef, calls, responses, nativeVars, ghostVars>>

\* updateActivity up to its await.
updateActivity(s, activityId, contentState) ==
  /\ ModuleReady /\ Takes(s)
  /\ LET c == [Began("update", "await") EXCEPT
                 !.id = activityId,
                 !.absent = activityId \notin DOMAIN activeActivities,
                 !.contentOk =
                    /\ activityId \in DOMAIN activeActivities
                    /\ Satisfies(OrEmpty(contentState),
                                 RequiredContent(ResolveKind(activeActivities[activityId])))]
         res == NativeUpdateActivity(Native, activityId, OrEmpty(contentState), s)
     IN  IF ~isSupported
         THEN /\ last' = Completed(c, Err(<<"Unsupported">>))
              /\ UNCHANGED <<calls, responses, nativeVars>>
         ELSE IF activityId = ""
         THEN /\ last' = Completed(c, Err(<<"InvalidArgument">>))
              /\ UNCHANGED <<calls, responses, nativeVars>>
         ELSE /\ calls' = [calls EXCEPT ![s] = c]
              /\ responses' = responses \cup {Response(s, "updateActivity", activityId, res)}
              /\ Becomes(res.st)
              /\ last' = IdleCall
  /\ UNCHANGED <<env, moduleRef, ghostVars>>

\* endActivity up to its await.
endActivity(s, activityId, dismissalPolicy) ==
  /\ ModuleReady /\ Takes(s)
  /\ LET c == [Began("end", "await") EXCEPT !.id = activityId,
                                           !.policy = dismissalPolicy,
                                           !.absent = activityId \notin DOMAIN activeActivities]
         res == NativeEndActivity(Native, activityId, dismissalPolicy, s)
     IN  IF ~isSupported
         THEN /\ last' = Completed(c, Err(<<"Unsupported">>))
              /\ UNCHANGED <<calls, responses, nativeVars>>
         ELSE IF activityId = ""
         THEN /\ last' = Completed(c, Err(<<"InvalidArgument">>))
              /\ UNCHANGED <<calls, responses, nativeVars>>
         ELSE /\ calls' = [calls EXCEPT ![s] = c]
              /\ responses' = responses \cup {Response(s, "endActivity", activityId, res)}
              /\ Becomes(res.st)
              /\ last' = IdleCall
  /\ endIssued' = endIssued \cup Uuids({activityId})
  /\ UNCHANGED <<env, moduleRef, knownIds, endDone, quiet>>

\* getAllActivities up to its await.
getAllActivities(s) ==
  /\ ModuleReady /\ Takes(s)
  /\ LET c == [Began("getAll", "await") EXCEPT !.expectEmpty = quiet,
                                              !.ids = DOMAIN activeActivities]
     IN  IF ~isSupported
         THEN /\ last' = Completed(c, Ok(NoVal))
              /\ UNCHANGED <<calls, responses>>
         ELSE /\ calls' = [calls EXCEPT ![s] = c]
              /\ responses' = responses \cup
                   {Response(s, "getAllActivities", "",
                             Result(BridgeGetAllActivities(Native), Native, FALSE))}
              /\ last' = IdleCall
  /\ UNCHANGED <<env, moduleRef, nativeVars, ghostVars>>

\* endAllActivities up to `await getAllActivities()`.
endAllActivities(s, dismissalPolicy) ==
  /\ ModuleReady /\ Takes(s)
  /\ LET c == [Began("endAll", "fetch") EXCEPT !.policy = dismissalPolicy]
     IN  IF ~isSupported
         THEN /\ last' = Completed(c, Ok(NoVal))
              /\ quiet' = TRUE
              /\ UNCHANGED <<calls, responses>>
         ELSE /\ calls' = [calls EXCEPT ![s] = c]
              /\ responses' = responses \cup
                   {Response(s, "getAllActivities", "",
                             Result(BridgeGetAllActivities(Native), Native, FALSE))}
              /\ last' = IdleCall
              /\ UNCHANGED quiet
  /\ UNCHANGED <<env, moduleRef, nativeVars, knownIds, endIssued, endDone>>

\* ------------------------------------------------- facade continuations
\* The call of slot s completes with outcome out.
Complete(s, out) ==
  /\ last' = Completed(calls[s], out)
  /\ calls' = [calls EXCEPT ![s] = IdleCall]

\* startActivity after `await ExpoLiveActivitiesModule.startActivity(...)`.
ReturnStart(r) ==
  /\ r \in responses /\ r.fn = "startActivity"
  /\ responses' = responses \ {r}
  /\ last' = Completed([calls[r.slot] EXCEPT !.id = r.out.val.activityId],
                       Wrap("Failed to start activity", r.out))
  /\ calls' = [calls EXCEPT ![r.slot] = IdleCall]
  /\ knownIds' = IF r.out.ok THEN knownIds \cup {r.out.val.activityId} ELSE knownIds
  /\ UNCHANGED <<env, moduleRef, nativeVars, endIssued, endDone, quiet>>

\* updateActivity after its await.
ReturnUpdate(r) ==
  /\ r \in responses /\ r.fn = "updateActivity"
  /\ responses' = responses \ {r}
  /\ Complete(r.slot, Wrap("Failed to update activity", r.out))
  /\ UNCHANGED <<env, moduleRef, nativeVars, ghostVars>>

\* endActivity after its await, when the caller called it.
ReturnEnd(r) ==
  /\ r \in responses /\ r.fn = "endActivity"
  /\ calls[r.slot].op = "end"
  /\ responses' = responses \ {r}
  /\ Complete(r.slot, Wrap("Failed to end activity", r.out))
  /\ endDone' = endDone \cup Uuids({r.id})
  /\ UNCHANGED <<env, moduleRef, nativeVars, knownIds, endIssued, quiet>>

\* A getAllActivities without its catch block: what C10 rules out.
ReturnGetAllRethrows(r) ==
  /\ r \in responses /\ r.fn = "getAllActivities"
  /\ calls[r.slot].op = "getAll"
  /\ responses' = responses \ {r}
  /\ Complete(r.slot, r.out)
  /\ UNCHANGED <<env, moduleRef, nativeVars, ghostVars>>

\* getAllActivities after its await: a rejection is caught and becomes [].
ReturnGetAll(r) ==
  /\ r \in responses /\ r.fn = "getAllActivities"
  /\ calls[r.slot].op = "getAll"
  /\ responses' = responses \ {r}
  /\ Complete(r.slot, IF r.out.ok THEN r.out ELSE Ok(NoVal))
  /\ UNCHANGED <<env, moduleRef, nativeVars, ghostVars>>

\* The orders in which Array(dictionary.keys) may list a set of ids.
Orders(ids) ==
  {q \in [1..Cardinality(ids) -> ids] : \A i, j \in 1..Cardinality(ids) : q[i] = q[j] => i = j}

\* An endAllActivities that ends nothing: what C4 rules out.
FetchedIdsNone(r) == {}

\* An endAllActivities that ends the ids the registry holds when the ends are
\* issued instead of those it fetched: what C20 rules out.
FetchedIdsCurrent(r) == DOMAIN activeActivities

\* What the getAllActivities() inside endAllActivities resolves to.
FetchedIds(r) == IF r.out.ok THEN r.out.val.ids ELSE {}

\* activityIds.map(id => endActivity(id, dismissalPolicy)) from the i-th id on:
\* each endActivity runs up to its await, one after the other.
RECURSIVE EndEach(_, _, _, _, _)
EndEach(st, order, i, dismissalPolicy, s) ==
  IF i > Len(order) THEN [st |-> st, resps |-> {}]
  ELSE LET res == NativeEndActivity(st, order[i], dismissalPolicy, s)
           rest == EndEach(res.st, order, i + 1, dismissalPolicy, s)
       IN  [st |-> rest.st,
            resps |-> {Response(s, "endActivity", order[i], res)} \cup rest.resps]

\* endAllActivities after `await getAllActivities()`, up to
\* `await Promise.all(...)`; Promise.all([]) resolves at once.
ReturnFetch(r, order) ==
  /\ r \in responses /\ r.fn = "getAllActivities"
  /\ calls[r.slot].op = "endAll" /\ calls[r.slot].pc = "fetch"
  /\ LET ids == FetchedIds(r)
         c == calls[r.slot]
         ended == EndEach(Native, order, 1, c.policy, r.slot)
     IN  /\ order \in Orders(ids)
         /\ IF ids = {}
            THEN /\ Complete(r.slot, Ok(NoVal))
                 /\ responses' = responses \ {r}
                 /\ quiet' = ~c.dirty
                 /\ UNCHANGED <<nativeVars, endIssued>>
            ELSE /\ calls' = [calls EXCEPT ![r.slot] =
                      [c EXCEPT !.pc = "ending", !.ids = ids, !.pend = ids,
                                !.ended = {x.id : x \in {y \in ended.resps : y.out.ok}}]]
                 /\ responses' = (responses \ {r}) \cup ended.resps
                 /\ Becomes(ended.st)
                 /\ endIssued' = endIssued \cup ids
                 /\ last' = IdleCall
                 /\ UNCHANGED quiet
  /\ UNCHANGED <<env, moduleRef, knownIds, endDone>>

\* A Promise.all that waits for every promise and resolves whatever they
\* settled with: what C15 rules out.
ReturnChildIgnoresRejection(r) ==
  /\ r \in responses /\ r.fn = "endActivity"
  /\ calls[r.slot].op # "end"
  /\ responses' = responses \ {r}
  /\ LET c == calls[r.slot]
     IN  IF c.op # "endAll"
         THEN /\ last' = IdleCall
              /\ UNCHANGED <<calls, quiet>>
         ELSE IF c.pend = {r.id}
         THEN /\ Complete(r.slot, Ok(NoVal))
              /\ quiet' = ~c.dirty
         ELSE /\ calls' = [calls EXCEPT ![r.slot] = [c EXCEPT !.pend = c.pend \ {r.id}]]
              /\ last' = IdleCall
              /\ UNCHANGED quiet
  /\ endDone' = endDone \cup Uuids({r.id})
  /\ UNCHANGED <<env, moduleRef, nativeVars, knownIds, endIssued>>

\* One endActivity of endAllActivities settles.  Promise.all rejects with the
\* first rejection and resolves when every promise has resolved; what settles
\* after a rejection is ignored.
ReturnChild(r) ==
  /\ r \in responses /\ r.fn = "endActivity"
  /\ calls[r.slot].op # "end"
  /\ responses' = responses \ {r}
  /\ LET c == calls[r.slot]
     IN  IF c.op # "endAll"
         THEN /\ last' = IdleCall
              /\ UNCHANGED <<calls, quiet>>
         ELSE IF ~r.out.ok
         THEN /\ Complete(r.slot, Wrap("Failed to end all activities",
                                       Wrap("Failed to end activity", r.out)))
              /\ quiet' = ~c.dirty
         ELSE IF c.pend = {r.id}
         THEN /\ Complete(r.slot, Ok(NoVal))
              /\ quiet' = ~c.dirty
         ELSE /\ calls' = [calls EXCEPT ![r.slot] = [c EXCEPT !.pend = c.pend \ {r.id}]]
              /\ last' = IdleCall
              /\ UNCHANGED quiet
  /\ endDone' = endDone \cup Uuids({r.id})
  /\ UNCHANGED <<env, moduleRef, nativeVars, knownIds, endIssued>>

\* A host whose update replaces the attributes along with the content: what
\* C14 rules out.
HostRunReplacesAttributes(t, applied) ==
  /\ t \in hostTasks
  /\ hostTasks' = hostTasks \ {t}
  /\ earlier' = {p \in earlier : p[1] # t /\ p[2] # t}
  /\ host' = IF applied /\ t.h.n \in DOMAIN host
             THEN IF t.op = "update"
                  THEN [host EXCEPT ![t.h.n] = [@ EXCEPT !.content = t.content,
                                                        !.attrs = t.content]]
                  ELSE [n \in DOMAIN host \ {t.h.n} |-> host[n]]
             ELSE host
  /\ calls' = IF applied \/ calls[t.slot].pc = "idle" THEN calls
              ELSE [calls EXCEPT ![t.slot] = [@ EXCEPT !.hostFailed = TRUE]]
  /\ last' = IdleCall
  /\ UNCHANGED <<env, moduleRef, responses, activeActivities, uuidCount, teardowns,
                 ghostVars>>

\* ----------------------------------------------------------------- host
\* A pending Task runs: `await activity.update(using:)` or
\* `await activity.end(dismissalPolicy:)`.  Neither reports to anyone; the host
\* may apply the request or not; an ended activity is no longer presented and
\* a request for it changes nothing.
HostRun(t, applied) ==
  /\ t \in hostTasks
  /\ hostTasks' = hostTasks \ {t}
  /\ earlier' = {p \in earlier : p[1] # t /\ p[2] # t}
  /\ host' = IF applied /\ t.h.n \in DOMAIN host
             THEN IF t.op = "update"
                  THEN [host EXCEPT ![t.h.n] = [@ EXCEPT !.content = t.content]]
                  ELSE [n \in DOMAIN host \ {t.h.n} |-> host[n]]
             ELSE host
  /\ calls' = IF applied \/ calls[t.slot].pc = "idle" THEN calls
              ELSE [calls EXCEPT ![t.slot] = [@ EXCEPT !.hostFailed = TRUE]]
  /\ last' = IdleCall
  /\ UNCHANGED <<env, moduleRef, responses, activeActivities, uuidCount, teardowns,
                 ghostVars>>

\* ------------------------------------------------------- specification
\* The caller makes a facade call, in one of the given slots and with
\* arguments from the given sets.
Call(slots, kinds, attrs, contents, policies) ==
  \/ CallIsSupported
  \/ \E s \in slots, k \in kinds, a \in attrs, c \in contents, hostAccepts \in BOOLEAN :
        startActivity(s, k, a, c, hostAccepts)
  \/ \E s \in slots, i \in CallerIds, c \in contents : updateActivity(s, i, c)
  \/ \E s \in slots, i \in CallerIds, p \in policies : endActivity(s, i, p)
  \/ \E s \in slots : getAllActivities(s)
  \/ \E s \in slots, p \in policies : endAllActivities(s, p)

\* A pending await of a facade call resumes.
Return ==
  \/ \E r \in responses : ReturnStart(r)
  \/ \E r \in responses : ReturnUpdate(r)
  \/ \E r \in responses : ReturnEnd(r)
  \/ \E r \in responses : ReturnGetAll(r)
  \/ \E r \in responses : \E order \in Orders(FetchedIds(r)) : ReturnFetch(r, order)
  \/ \E r \in responses : ReturnChild(r)

\* A pending Task runs.
Host(outcomes) == \E t \in hostTasks, applied \in outcomes : HostRun(t, applied)

\* Overlapping calls, with the arguments that decide the control flow; the
\* host applies every request.
Next ==
  \/ LoadModule
  \/ Call(Slots, CoreKinds, CoreAttrs, CoreContents, CorePolicies)
  \/ Return
  \/ Host({TRUE})

Spec == Init /\ [][Next]_vars

\* One call at a time, with every argument; the host may leave a request
\* without effect.
NextArgs ==
  \/ LoadModule
  \/ Call({1}, KindInputs, AttrInputs, ContentInputs, PolicyInputs)
  \/ Return
  \/ Host(BOOLEAN)

SpecArgs == Init /\ [][NextArgs]_vars

\* --------------------------------------------------------------- claims
\* C1: every activity id a successful startActivity has returned is among the
\* ids the bridge's getAllActivities lists, at every point until an end is
\* issued for it; and once an endActivity for an id has completed, the id is
\* not among them.
C1_ListedUntilEnded ==
  /\ \A id \in knownIds \ endIssued : id \in NativeGetAllActivities(Native)
  /\ \A id \in endDone : id \notin NativeGetAllActivities(Native)

\* One returned id is still listed while the end of another has completed.
C1_Witness ==
  \E a \in knownIds \ endIssued, b \in knownIds \cap endDone :
     /\ a \in NativeGetAllActivities(Native)
     /\ b \notin NativeGetAllActivities(Native)

\* C2: the id a successful startActivity hands back is not in the registry
\* when the activity is created, and is in it afterwards; distinct ids of the
\* registry stand for distinct instances, so no id is reissued while it is
\* live.
C2_FreshId ==
  [][\A r \in responses' \ responses :
        (r.fn = "startActivity" /\ r.out.ok) =>
           /\ r.out.val.activityId \notin DOMAIN activeActivities
           /\ r.out.val.activityId \in DOMAIN activeActivities'
           /\ \A i, j \in DOMAIN activeActivities' :
                 activeActivities'[i].n = activeActivities'[j].n => i = j]_vars

\* A startActivity has returned an id while another activity is live.
C2_Witness ==
  /\ last.op = "start" /\ last.out.ok
  /\ last.id \in DOMAIN activeActivities
  /\ Cardinality(DOMAIN activeActivities) = 2

\* C3, as stated: an updateActivity whose id has no entry in the registry
\* fails with NotFound, whatever the content.
C3_AbsentIsNotFound ==
  (last.op = "update" /\ last.absent) =>
     (~last.out.ok /\ Root(last.out) = "notFound")

\* C3, amended: when isSupported() is true, an updateActivity whose id is not
\* empty and has no entry in the registry fails with NotFound, whatever the
\* content.
C3_SupportedAbsentIsNotFound ==
  (last.op = "update" /\ last.absent /\ isSupported /\ last.id # "") =>
     (~last.out.ok /\ Root(last.out) = "notFound")

\* An update of an id that an earlier start returned and that has been ended
\* since fails with NotFound.
C3_Witness ==
  /\ last.op = "update" /\ last.absent /\ isSupported
  /\ last.id \in knownIds
  /\ ~last.out.ok /\ Root(last.out) = "notFound"

\* C4: a getAllActivities called after an endAllActivities has completed, with
\* no startActivity called since that endAllActivities began, returns the
\* empty list.
C4_EmptyAfterEndAll ==
  (last.op = "getAll" /\ last.expectEmpty) => last.out.val.ids = {}

\* Such a getAllActivities has returned after two activities were started.
C4_Witness ==
  /\ last.op = "getAll" /\ last.expectEmpty
  /\ Cardinality(knownIds) = 2
  /\ knownIds \subseteq endDone

\* C5: a step in which a startActivity fails leaves the registry and the
\* host's activities as they were, and when the failure is an unknown kind or
\* a rejected attribute or content record no creation request was made.
C5_FailedStartFrame ==
  [][/\ \A r \in responses' \ responses :
           (r.fn = "startActivity" /\ ~r.out.ok) =>
              /\ activeActivities' = activeActivities
              /\ host' = host
              /\ Root(r.out) \in {"unknownType", "invalidAttributes", "invalidContent"}
                    => ~r.hostCalled
     /\ (last'.op = "start" /\ ~last'.out.ok) =>
           (activeActivities' = activeActivities /\ host' = host)]_vars

\* A startActivity the host rejected has failed while an activity is live.
C5_Witness ==
  /\ last.op = "start" /\ ~last.out.ok /\ Root(last.out) = "hostRejected"
  /\ activeActivities # EmptyDict

\* C6: from the moment the native end handler has returned for a live id, and
\* so when endActivity returns, the id is not in the registry, whatever has
\* become of the host's teardown.
C6_RemovedInTheCall ==
  /\ \A r \in responses :
        (r.fn = "endActivity" /\ r.out.ok) => r.id \notin DOMAIN activeActivities
  /\ (last.op = "end" /\ last.out.ok) => last.id \notin DOMAIN activeActivities

\* An endActivity has returned while the host has not yet run the teardown and
\* still presents the activity.
C6_Witness ==
  /\ last.op = "end" /\ last.out.ok
  /\ \E t \in hostTasks : t.op = "end" /\ t.id = last.id /\ t.h.n \in DOMAIN host

C8_UnsupportedFirst ==
  ~isSupported =>
     /\ last.op \in {"start", "update", "end"} =>
           (~last.out.ok /\ last.out.err = <<"Unsupported">>)
     /\ responses = {} /\ hostTasks = {} /\ uuidCount = 0
     /\ activeActivities = EmptyDict /\ host = EmptyDict

\* An updateActivity with the empty id has failed with Unsupported.
C8_Witness ==
  /\ ~isSupported
  /\ last.op = "update" /\ last.id = "" /\ last.out.err = <<"Unsupported">>

\* C9, as stated for a bridge module that cannot be loaded: on iOS without the
\* native module linked, the facade has loaded and isSupported() can be called
\* and returns false.
C9_UnloadableYieldsFalse ==
  (moduleRef # "unloaded" /\ env.os = "ios" /\ ~env.linked) =>
     (ModuleReady /\ ~isSupported)

\* C10: getAllActivities never fails; it returns the empty list when
\* isSupported() is false or the bridge call raises, and otherwise the ids the
\* registry held when the bridge ran the request.
C10_GetAllNeverFails ==
  last.op = "getAll" =>
     /\ last.out.ok
     /\ last.out.val.ids =
          IF ~isSupported \/ "getAllActivities" \in env.throws THEN {} ELSE last.ids

\* The bridge call raised while the registry held an activity, and
\* getAllActivities returned the empty list.
C10_Witness ==
  /\ last.op = "getAll" /\ "getAllActivities" \in env.throws
  /\ last.ids # {} /\ last.out.ok /\ last.out.val.ids = {}

\* C11: on a supported device below iOS 16.2, an endActivity of a live id
\* with the policy 'after' asks the host to end the activity with the default
\* policy and removes the id from the registry in the same step, and the call
\* completes without error.
C11_AfterBecomesDefault ==
  [][/\ \A t \in hostTasks' \ hostTasks :
           (/\ t.op = "end"
            /\ Lowercased(calls'[t.slot].policy) = "after"
            /\ env.version < IOS_16_2) =>
              /\ t.policy = "default"
              /\ t.id \in DOMAIN activeActivities
              /\ t.id \notin DOMAIN activeActivities'
     /\ (/\ last'.op = "end" /\ Lowercased(last'.policy) = "after"
         /\ env.version < IOS_16_2
         /\ isSupported /\ last'.id # "" /\ ~last'.absent) =>
           (last'.out.ok /\ last'.id \notin DOMAIN activeActivities')]_vars

\* Such an endActivity has completed and its teardown, with the default
\* policy, is pending.
C11_Witness ==
  /\ last.op = "end" /\ last.policy = "after" /\ env.version < IOS_16_2
  /\ last.out.ok
  /\ \E t \in hostTasks : t.op = "end" /\ t.id = last.id /\ t.policy = "default"

\* C12: on a supported device, a startActivity whose kind is a non-empty
\* string outside the catalog fails with the unknown-type error, whatever the
\* attributes and the content are.
C12_UnknownKind ==
  (last.op = "start" /\ isSupported /\ last.kind # "" /\ last.kind \notin Catalog) =>
     (~last.out.ok /\ Root(last.out) = "unknownType")

\* A startActivity("DoesNotExist", ...) has failed with the unknown-type error
\* while an activity is live.
C12_Witness ==
  /\ last.op = "start" /\ last.kind = "DoesNotExist"
  /\ ~last.out.ok /\ Root(last.out) = "unknownType"
  /\ activeActivities # EmptyDict

\* C13: on a supported device, a startActivity for a kind of the catalog
\* fails with the invalid-attributes error when the attributes lack a required
\* field or have it with another type, whatever the content is, and with the
\* invalid-content error when the attributes are complete and the content
\* lacks a required field or has it with another type.
C13_AttributesBeforeContent ==
  (last.op = "start" /\ isSupported /\ last.kind \in Catalog) =>
     /\ ~last.attrsOk => (~last.out.ok /\ Root(last.out) = "invalidAttributes")
     /\ (last.attrsOk /\ ~last.contentOk) =>
           (~last.out.ok /\ Root(last.out) = "invalidContent")

\* A status activity whose attributes and content are both incomplete has
\* failed with the invalid-attributes error.
C13_Witness ==
  /\ last.op = "start" /\ last.kind = "StatusActivity"
  /\ ~last.attrsOk /\ ~last.contentOk
  /\ ~last.out.ok /\ Root(last.out) = "invalidAttributes"

\* C14: on a supported device, an updateActivity on an id of the registry with
\* content that has the required fields of the activity's kind succeeds, no
\* attributes being passed; the handler that accepts an update leaves the
\* registry and the host's activities as they are, and the host's run of the
\* update leaves the registry, the set of activities, every activity's kind
\* and attributes, and every other activity's content as they are.
C14_UpdateChangesOnlyContent ==
  [][/\ \A r \in responses' \ responses :
           (r.fn = "updateActivity" /\ r.out.ok) =>
              (activeActivities' = activeActivities /\ host' = host)
     /\ \A t \in hostTasks \ hostTasks' :
           t.op = "update" =>
              /\ activeActivities' = activeActivities
              /\ DOMAIN host' = DOMAIN host
              /\ \A n \in DOMAIN host :
                    /\ host'[n].kind = host[n].kind
                    /\ host'[n].attrs = host[n].attrs
                    /\ n # t.h.n => host'[n] = host[n]
     /\ (/\ last'.op = "update" /\ isSupported
         /\ last'.id # "" /\ ~last'.absent /\ last'.contentOk) => last'.out.ok]_vars

\* An update has succeeded and the host has applied it: the activity shows
\* the second content, with the attributes it was created with.
C14_Witness ==
  /\ last.op = "update" /\ last.out.ok /\ last.contentOk /\ ~last.hostFailed
  /\ last.id \in DOMAIN activeActivities
  /\ \A t \in hostTasks : t.id # last.id
  /\ LET a == host[activeActivities[last.id].n]
     IN  /\ a.kind = "ProgressActivity"
         /\ a.content.current = IntV(2)
         /\ a.attrs.total = IntV(3)

\* C15: when one of the endActivity calls of an endAllActivities settles with
\* a failure while the call is waiting, the endAllActivities fails as a
\* whole, with its own wrapper around the failure, and that step changes
\* nothing in the registry or at the host; when an endAllActivities has
\* failed, every id of its list whose endActivity the bridge accepted is out
\* of the registry, with its one teardown requested.
C15_NoRollback ==
  [][/\ \A r \in responses \ responses' :
           (r.fn = "endActivity" /\ ~r.out.ok /\ calls[r.slot].op = "endAll") =>
              /\ last'.op = "endAll" /\ ~last'.out.ok
              /\ last'.out.err[1] = "Failed to end all activities"
              /\ UNCHANGED nativeVars
     /\ (last'.op = "endAll" /\ ~last'.out.ok) =>
           \A id \in last'.ended :
              /\ id \notin DOMAIN activeActivities'
              /\ Teardowns(teardowns', id) = 1]_vars

\* An endAllActivities has failed although the bridge accepted the end of
\* one id of its list: that id is out of the registry.
C15_Witness ==
  /\ last.op = "endAll" /\ ~last.out.ok
  /\ last.ended # {} /\ last.ended # last.ids
  /\ \A id \in last.ended : id \notin DOMAIN activeActivities

\* C16: the host runs the requests made for one activity id in the order they
\* were made: when it runs a request, no request made earlier for the same id
\* is still waiting, so that two updates take effect in the order of their
\* calls and an update made before an endActivity is not run after the
\* teardown.
C16_IssueOrder ==
  [][\A t \in hostTasks \ hostTasks' : \A u \in hostTasks : <<u, t>> \notin earlier]_vars

\* C17: on a supported device, an endActivity called with a non-empty id that
\* has no entry in the registry, because no startActivity returned it or
\* because an end has removed it, fails with the not-found error; the bridge
\* handler of such a call leaves the registry, the pending host requests and
\* the count of teardowns as they are.
C17_EndOfAbsentIsNotFound ==
  [][/\ (last'.op = "end" /\ isSupported /\ last'.id # "" /\ last'.absent) =>
           (~last'.out.ok /\ Root(last'.out) = "notFound")
     /\ \A r \in responses' \ responses :
           (/\ r.fn = "endActivity" /\ calls'[r.slot].op = "end"
            /\ r.id \notin DOMAIN activeActivities) =>
              /\ ~r.out.ok /\ Root(r.out) = "notFound"
              /\ activeActivities' = activeActivities
              /\ hostTasks' = hostTasks
              /\ teardowns' = teardowns]_vars

\* A second endActivity on an id whose first end has completed has failed
\* with the not-found error; the id's single teardown is the first call's.
C17_Witness ==
  /\ last.op = "end" /\ last.absent /\ last.id \in knownIds \cap endDone
  /\ ~last.out.ok /\ Root(last.out) = "notFound"
  /\ Teardowns(teardowns, last.id) = 1

\* C18: for every id of the registry, the kind the ordered trial of casts
\* recovers from the stored handle is the kind the host was asked to create
\* the activity with, and it is the kind the caller named when the id was
\* returned; an updateActivity never fails with the unknown-type error, and
\* an endActivity that has succeeded has had its teardown requested.
C18_KindIsCreationKind ==
  /\ \A id \in DOMAIN activeActivities :
        LET h == activeActivities[id]
        IN  /\ h.n \in DOMAIN host
            /\ ResolveKind(h) = host[h.n].kind
            /\ ResolveKind(h) \in Catalog
  /\ (last.op = "start" /\ last.out.ok /\ last.id \in DOMAIN activeActivities) =>
        ResolveKind(activeActivities[last.id]) = last.kind
  /\ (last.op = "update" /\ ~last.out.ok) => Root(last.out) # "unknownType"
  /\ (last.op = "end" /\ last.out.ok) => Teardowns(teardowns, last.id) = 1

\* The end of an activity of the kind tried last has succeeded and its
\* teardown is waiting at the host, while an activity of another kind is live.
C18_Witness ==
  /\ last.op = "end" /\ last.out.ok
  /\ \E t \in hostTasks : t.op = "end" /\ t.id = last.id /\ t.h.kind = "ProgressActivity"
  /\ \E id \in DOMAIN activeActivities :
        ResolveKind(activeActivities[id]) = "StatusActivity"

\* C19: whatever the interleaving of endActivity and endAllActivities calls,
\* at most one teardown is requested for an activity id and at most one end
\* request for it waits at the host; on a supported device every endActivity
\* of a non-empty id that fails, and every endAllActivities that fails, fails
\* with the not-found error.
C19_OneTeardownPerId ==
  /\ \A id \in DOMAIN teardowns : teardowns[id] <= 1
  /\ \A t, u \in hostTasks : (t.op = "end" /\ u.op = "end" /\ t.id = u.id) => t = u
  /\ \A r \in responses : (r.fn = "endActivity" /\ ~r.out.ok) => Root(r.out) = "notFound"
  /\ (/\ last.op \in {"end", "endAll"} /\ ~last.out.ok
      /\ isSupported /\ (last.op = "end" => last.id # "")) => Root(last.out) = "notFound"

\* Two endAllActivities overlap with the same list of two ids: the bridge
\* accepted every end of the one still waiting, the other has failed with
\* not-found for all of its ends, and each id has one teardown.
C19_Witness ==
  /\ last.op = "endAll" /\ ~last.out.ok /\ Root(last.out) = "notFound"
  /\ Cardinality(last.ids) = 2 /\ last.ended = {}
  /\ \E s \in Slots : /\ calls[s].op = "endAll" /\ calls[s].pc = "ending"
                      /\ calls[s].ids = last.ids /\ calls[s].ended = last.ids
  /\ \A id \in last.ids : Teardowns(teardowns, id) = 1

\* C20: an activity that is in the registry without being in the list an
\* endAllActivities fetched, having been started after the fetch, is not
\* ended by that call: the step that issues the ends of the list keeps its
\* id in the registry and requests no teardown for it, the steps in which
\* those ends settle change nothing in the registry or the teardowns, and an
\* endAllActivities whose listed ends the bridge all accepted completes
\* without error.
C20_LateStartNotEnded ==
  [][/\ \A r \in responses \ responses' :
           (r.fn = "getAllActivities" /\ calls[r.slot].op = "endAll") =>
              \A id \in DOMAIN activeActivities \ r.out.val.ids :
                 /\ id \in DOMAIN activeActivities'
                 /\ activeActivities'[id] = activeActivities[id]
                 /\ Teardowns(teardowns', id) = Teardowns(teardowns, id)
                 /\ \A t \in hostTasks' \ hostTasks : t.id # id
     /\ \A r \in responses \ responses' :
           (r.fn = "endActivity" /\ calls[r.slot].op = "endAll") =>
              (activeActivities' = activeActivities /\ teardowns' = teardowns)
     /\ (last'.op = "endAll" /\ last'.ended = last'.ids) => last'.out.ok]_vars

\* An endAllActivities has completed without error after ending the id of
\* its list, while the activity started after its fetch is in the registry
\* with no teardown requested.
C20_Witness ==
  /\ last.op = "endAll" /\ last.out.ok /\ last.dirty /\ last.ids # {}
  /\ \A id \in last.ids : id \notin DOMAIN activeActivities
  /\ \E id \in DOMAIN activeActivities :
        id \notin last.ids /\ Teardowns(teardowns, id) = 0

====
